---- MODULE Spec2Model ----
(***************************************************************************)
(* Model of the test-case-generator backend: the GitHub webhook handler,   *)
(* the in-memory job registry, the background task and the six-node        *)
(* LangGraph workflow of AIService.execute_workflow, together with the     *)
(* pydantic validation of ProcessingJob.                                   *)
(***************************************************************************)
EXTENDS Integers, Sequences, FiniteSets, TLC

\* ---------------------------------------------------------------- bounds
MaxReqs == 2      \* webhook deliveries the model follows
MaxIssue == 1     \* issue numbers 1..MaxIssue (0 is the invalid issue number)
MaxDocs == 1      \* documents a similarity query returns at most

Reqs == 1..MaxReqs

\* ---------------------------------------------------------------- options
\* Optional[T]: None is the empty set, a present value x is {x}.
None == {}
Some(x) == {x}
Val(o) == CHOOSE x \in o : TRUE

\* Texts are sequences of parts; the empty string is the empty sequence.
EmptyMsg == <<>>
Msgs == {EmptyMsg, <<"err">>}
\* Python truthiness of an Optional[str]: None and "" are falsy.
Truthy(m) == m # None /\ Val(m) # EmptyMsg

\* ---------------------------------------------------------------- enums
JobStatus == {"PENDING", "PROCESSING", "COMPLETED", "FAILED", "SKIPPED"}
WorkflowStage == <<"RECEIVE", "RETRIEVE", "GENERATE", "COMMIT", "CREATE_PR", "FINALIZE">>
Stages == {WorkflowStage[i] : i \in 1..Len(WorkflowStage)}

\* ProcessingJob field constraint retry_count: ge=0, le=3.
RetryCountMax == 3
\* self.max_retries when the configuration has no MAX_RETRIES.
DefaultMaxRetries == 3
\* Default retry_delays of a job.
DefaultRetryDelays == <<5, 15, 45>>

\* ---------------------------------------------------------------- state
VARIABLES
    clock,   \* wall clock read by datetime.now()
    redis,   \* idempotency keys held by the Redis store
    jobs,    \* app.state.jobs: job_id -> ProcessingJob
    hpc,     \* position of each webhook request's handler
    hin,     \* the request the handler received
    resp,    \* the HTTP response of the handler
    ev,      \* the WebhookEvent process_webhook returned
    injob,   \* the job handed to the background task
    pc,      \* position of each background task in the workflow graph
    st,      \* WorkflowState of the running graph
    ret,     \* how execute_workflow ended
    calls,   \* collaborator calls the workflow made, in order
    snaps,   \* every ProcessingJob constructed for the request, in order
    cand,    \* arguments of a ProcessingJob constructor call made on its own
    accepted, \* the job that call returned, None when it raised ValidationError
    gwr,     \* a call of generate_with_retries made on its own: its frame and trace
    poll,    \* the answer of the latest status query (GET /jobs/{job_id})
    sched,   \* per pipeline task: the I/O calls it finished and whether one is in flight
    pulls,   \* the pull requests opened on GitHub, each with the default branch it met
    cbr      \* a call of create_branch_with_retry made on its own: its frame and trace

vars == <<clock, redis, jobs, hpc, hin, resp, ev, injob, pc, st, ret, calls, snaps, cand, accepted, gwr, poll, sched, pulls, cbr>>

\* ---------------------------------------------------------------- ProcessingJob
\* The pydantic validation of ProcessingJob: the field constraint on
\* retry_count and the two field validators.  A constructor call whose
\* arguments fail it raises ValidationError.
ValidCompletedAt(j) ==
    j.completed_at # None => ~(Val(j.completed_at) <= j.started_at)

ValidErrorMessage(j) ==
    ~(j.status = "FAILED" /\ ~Truthy(j.error_message))

ValidRetryCount(j) == j.retry_count >= 0 /\ j.retry_count <= RetryCountMax

ValidJob(j) == ValidRetryCount(j) /\ ValidCompletedAt(j) /\ ValidErrorMessage(j)

\* uuid4(): a value no other call returns; the k-th call made for request r.
Uuid(r, k) == <<"uuid", r, k>>

\* hashlib.sha256(f"{repository}-{issue_number}").hexdigest()
IdempotencyKey(repo, issue) == <<"sha256", repo, issue>>

\* ---------------------------------------------------------------- webhook handler
Repository == "owner/repo"

\* A delivery that passes every check, for issue i.
GoodRequest(i) ==
    [json_ok |-> TRUE, sig |-> "valid", event_type |-> "issues.labeled",
     fields_ok |-> TRUE, labelled |-> TRUE, issue |-> i]

\* The deliveries the model sends: the good ones, a good one spoiled in
\* one respect (issue 0 passes process_webhook's own checks and fails the
\* WebhookEvent constraint issue_number > 0), and one that is neither valid
\* JSON nor correctly signed.
WebhookRequests ==
    {GoodRequest(i) : i \in 0..MaxIssue}
    \cup {[GoodRequest(1) EXCEPT !.json_ok = FALSE]}
    \cup {[GoodRequest(1) EXCEPT !.json_ok = FALSE, !.sig = "mismatch"]}
    \cup {[GoodRequest(1) EXCEPT !.sig = s] : s \in {"missing", "noprefix", "mismatch"}}
    \cup {[GoodRequest(1) EXCEPT !.event_type = "issues.closed"]}
    \cup {[GoodRequest(1) EXCEPT !.fields_ok = FALSE]}
    \cup {[GoodRequest(1) EXCEPT !.labelled = FALSE]}

Response(code, err) == [status |-> code, error_code |-> err]

\* ProcessWebhookChecks without the duplicate check of step 7.
ProcessWebhookChecksNoDuplicate(inp, store) ==
    IF inp.sig # "valid" THEN Response(401, "E101")
    ELSE IF ~inp.json_ok THEN Response(400, "E102")
    ELSE IF inp.event_type \notin {"issues.opened", "issues.labeled"} THEN Response(400, "E102")
    ELSE IF ~inp.fields_ok THEN Response(400, "E102")
    ELSE IF ~inp.labelled THEN Response(400, "E103")
    ELSE Response(0, "pass")

\* WebhookService.process_webhook, steps 1 to 7: the error it raises as the
\* HTTP response github_webhook turns it into, or "pass".
ProcessWebhookChecks(inp, store) ==
    IF inp.sig # "valid" THEN Response(401, "E101")
    ELSE IF ~inp.json_ok THEN Response(400, "E102")
    ELSE IF inp.event_type \notin {"issues.opened", "issues.labeled"} THEN Response(400, "E102")
    ELSE IF ~inp.fields_ok THEN Response(400, "E102")
    ELSE IF ~inp.labelled THEN Response(400, "E103")
    ELSE IF IdempotencyKey(Repository, inp.issue) \in store THEN Response(409, "E104")
    ELSE Response(0, "pass")

\* WebhookEvent validation (issue_number: gt=0).
ValidEvent(e) == e.issue_number > 0

\* The job github_webhook creates for an accepted event.
InitialJob(r, e, now) ==
    [job_id |-> Uuid(r, 4),
     webhook_event_id |-> e.event_id,
     status |-> "PENDING",
     started_at |-> now,
     completed_at |-> None,
     error_message |-> None,
     error_code |-> None,
     retry_count |-> 0,
     retry_delays |-> DefaultRetryDelays,
     last_retry_at |-> None,
     idempotency_key |-> IdempotencyKey(e.repository, e.issue_number),
     current_stage |-> "RECEIVE",
     correlation_id |-> Uuid(r, 3)]

\* github_webhook up to the reply of redis exists(): request.json() is parsed
\* first, then process_webhook validates the signature, the payload, the
\* event type, the fields and the label, and asks the store for the key.
WebhookArrive(r) ==
    /\ hpc[r] = "idle"
    /\ \E inp \in WebhookRequests :
         LET chk == IF ~inp.json_ok THEN Response(400, "json")
                    ELSE ProcessWebhookChecks(inp, redis)
         IN /\ hin' = [hin EXCEPT ![r] = Some(inp)]
            /\ IF chk.error_code = "pass"
               THEN /\ hpc' = [hpc EXCEPT ![r] = "reserve"]
                    /\ resp' = resp
               ELSE /\ hpc' = [hpc EXCEPT ![r] = "responded"]
                    /\ resp' = [resp EXCEPT ![r] = Some(chk)]
    /\ UNCHANGED <<clock, redis, jobs, ev, injob, pc, st, ret, calls, snaps, cand, accepted, gwr, poll, sched, pulls, cbr>>

\* github_webhook after exists() answered "no": set_with_ttl reserves the key,
\* the WebhookEvent is built, the job is created and stored in app.state.jobs,
\* and the background task is queued.
WebhookReserve(r) ==
    /\ hpc[r] = "reserve"
    /\ LET inp == Val(hin[r])
           e == [event_id |-> Uuid(r, 2),
                 event_type |-> inp.event_type,
                 issue_number |-> inp.issue,
                 repository |-> Repository,
                 correlation_id |-> Uuid(r, 1)]
           job == InitialJob(r, e, clock)
       IN /\ redis' = redis \cup {IdempotencyKey(Repository, inp.issue)}
          /\ hpc' = [hpc EXCEPT ![r] = "responded"]
          /\ IF ValidEvent(e)
             THEN /\ clock' = clock + 1
                  /\ ev' = [ev EXCEPT ![r] = Some(e)]
                  /\ injob' = [injob EXCEPT ![r] = Some(job)]
                  /\ jobs' = (job.job_id :> job) @@ jobs
                  /\ snaps' = [snaps EXCEPT ![r] = <<job>>]
                  /\ pc' = [pc EXCEPT ![r] = "receive"]
                  /\ st' = [st EXCEPT ![r] = Some([job |-> job, context |-> None,
                                                   test_document |-> None, error |-> None])]
                  /\ resp' = [resp EXCEPT ![r] = Some(Response(202, "accepted"))]
             ELSE /\ clock' = clock
                  /\ resp' = [resp EXCEPT ![r] = Some(Response(400, "event"))]
                  /\ UNCHANGED <<ev, injob, jobs, snaps, pc, st>>
    /\ UNCHANGED <<hin, ret, calls, cand, accepted, gwr, poll, sched, pulls, cbr>>

\* ---------------------------------------------------------------- collaborators
\* A logged call and how it ended: "ok", "raise", "timeout", "exists" (create_branch
\* found the branch) or "unusable" (the LLM's text did not make a valid document).
Call(op, res) == [op |-> op, res |-> res]

\* A context document as _retrieve_node builds it; issue_number is None when
\* the stored metadata has none (the node then stores the text 'unknown').
ContextDocs == {[content |-> "doc", issue_number |-> n] : n \in {None, Some(1)}}

DocLists == UNION {[1..n -> ContextDocs] : n \in 0..MaxDocs}

\* What the embedding service and the vector store do in one RETRIEVE.
RetrieveOutcomes ==
    {[at |-> "generate_embedding", msg |-> <<"Embedding model not loaded">>, docs |-> <<>>]}
    \cup {[at |-> "query_similar", msg |-> m, docs |-> <<>>] : m \in Msgs}
    \cup {[at |-> "none", msg |-> EmptyMsg, docs |-> d] : d \in DocLists}

\* What the LLM client does in one GENERATE: text with or without a Markdown
\* heading, no answer within the timeout, or an exception.
AnswerOutcomes ==
    {[kind |-> "text", content |-> c, msg |-> EmptyMsg] : c \in {"# markdown", "plain"}}
    \cup {[kind |-> "raise", content |-> "", msg |-> m] : m \in Msgs}

\* A wait on the generation client with no bound: it never times out.
TimeoutOutcomesUnbounded == {}

\* asyncio.timeout(self.timeout) around the call: with no answer in time the
\* call is cancelled and asyncio.TimeoutError is raised.
TimeoutOutcomes == {[kind |-> "timeout", content |-> "", msg |-> EmptyMsg]}

GenerateOutcomes == AnswerOutcomes \cup TimeoutOutcomes

\* What the GitHub client does in one COMMIT: the first call that raises (or
\* none) and whether create_branch found the branch already there (it then
\* returns False instead of raising).
CommitOutcomes ==
    {[failAt |-> f, msg |-> m, exists |-> FALSE] :
        f \in {"get_repo", "get_branch", "create_branch"}, m \in Msgs}
    \cup {[failAt |-> "create_or_update_file", msg |-> m, exists |-> x] :
        m \in Msgs, x \in BOOLEAN}
    \cup {[failAt |-> "none", msg |-> EmptyMsg, exists |-> x] : x \in BOOLEAN}

\* One call that either raises with a message or returns.
CallOutcomes ==
    {[ok |-> FALSE, msg |-> m] : m \in Msgs} \cup {[ok |-> TRUE, msg |-> EmptyMsg]}

\* The pull request number GitHub assigns (one per request, by delivery).
PullRequest(r) ==
    [number |-> r, html_url |-> <<"https://github.com/", Repository, "/pull/", r>>]

\* str() of a pydantic ValidationError and of the AttributeError raised by
\* reading an attribute of None: never empty.
ValidationMsg == <<"validation error">>
NoneAttributeMsg == <<"'NoneType' object has no attribute 'branch_name'">>

\* ---------------------------------------------------------------- event loop
\* The collaborator I/O calls of one pipeline run, in order, and whether the
\* call suspends the task at an await that yields to the event loop (the
\* httpx post of the LLM client) or runs to its end on the loop's thread
\* (collection.query inside the async query_similar, every PyGithub call).
PipelineCalls ==
    << [op |-> "query_similar", suspends |-> FALSE],
       [op |-> "llm_generate", suspends |-> TRUE],
       [op |-> "get_repo", suspends |-> FALSE],
       [op |-> "get_branch", suspends |-> FALSE],
       [op |-> "create_branch", suspends |-> FALSE],
       [op |-> "create_or_update_file", suspends |-> FALSE],
       [op |-> "create_pull_request", suspends |-> FALSE],
       [op |-> "add_issue_comment", suspends |-> FALSE] >>

\* The backoff sleep as a blocking time.sleep.
SleepCallBlocking == [op |-> "sleep", suspends |-> FALSE]

\* The backoff sleep of generate_with_retries: await asyncio.sleep(delay).
SleepCall == [op |-> "sleep", suspends |-> TRUE]

\* A task that has made no call yet.
TaskIdle == [pos |-> 0, waiting |-> FALSE]

\* Task r is inside a call that does not yield: it holds the loop's thread.
HeldBy(r) == sched[r].waiting /\ ~PipelineCalls[sched[r].pos + 1].suspends

\* The retrying task is inside a sleep that does not yield.
HeldBySleep == gwr.pc = "sleeping" /\ ~SleepCall.suspends

\* No task holds the thread: the event loop can run any ready task.
LoopFree == ~HeldBySleep /\ \A r \in Reqs : ~HeldBy(r)

\* ---------------------------------------------------------------- generate_with_retries
\* No call of generate_with_retries is in progress.
GwrIdle == [pc |-> "idle"]

\* No call of create_branch_with_retry is in progress.
CbrIdle == [pc |-> "idle"]

\* ---------------------------------------------------------------- graph nodes
\* A node's result: the new WorkflowState, or the exception it raised; the
\* collaborator calls it made, the clock reads it took and the jobs it built.
NodeOk(state, cs, reads, built) ==
    [ok |-> TRUE, state |-> state, msg |-> EmptyMsg, calls |-> cs, reads |-> reads, built |-> built]
NodeRaise(msg, cs, reads) ==
    [ok |-> FALSE, state |-> None, msg |-> msg, calls |-> cs, reads |-> reads, built |-> <<>>]

\* ReceiveTransition forgetting to set the status.
ReceiveTransitionKeepsStatus(job) ==
    [job EXCEPT !.completed_at = None, !.error_message = None, !.error_code = None,
                !.current_stage = "RETRIEVE"]

\* The RECEIVE transition, shared by _receive_node and receive_webhook.
ReceiveTransition(job) ==
    [job EXCEPT !.status = "PROCESSING", !.completed_at = None,
                !.error_message = None, !.error_code = None,
                !.current_stage = "RETRIEVE"]

ReceiveNodeOut(s) ==
    LET updated == ReceiveTransition(s.job)
    IN IF ValidJob(updated)
       THEN NodeOk([s EXCEPT !.job = updated], <<>>, 0, <<updated>>)
       ELSE NodeRaise(ValidationMsg, <<>>, 0)

\* RetrieveNodeOut treating an empty result as an error.
RetrieveNodeOutEmptyIsError(s, o) ==
    IF o.at = "generate_embedding"
    THEN NodeOk([s EXCEPT !.error = Some(o.msg)],
                <<Call("generate_embedding", "raise")>>, 0, <<>>)
    ELSE IF o.at = "query_similar"
    THEN NodeOk([s EXCEPT !.error = Some(o.msg)],
                <<Call("generate_embedding", "ok"), Call("query_similar", "raise")>>, 0, <<>>)
    ELSE NodeOk([s EXCEPT !.context = Some(o.docs),
                          !.error = IF o.docs = <<>> THEN Some(<<"no context">>) ELSE @],
                <<Call("generate_embedding", "ok"), Call("query_similar", "ok")>>, 0, <<>>)

\* _retrieve_node: every exception is caught and stored as state["error"].
RetrieveNodeOut(s, o) ==
    IF o.at = "generate_embedding"
    THEN NodeOk([s EXCEPT !.error = Some(o.msg)],
                <<Call("generate_embedding", "raise")>>, 0, <<>>)
    ELSE IF o.at = "query_similar"
    THEN NodeOk([s EXCEPT !.error = Some(o.msg)],
                <<Call("generate_embedding", "ok"), Call("query_similar", "raise")>>, 0, <<>>)
    ELSE NodeOk([s EXCEPT !.context = Some(o.docs)],
                <<Call("generate_embedding", "ok"), Call("query_similar", "ok")>>, 0, <<>>)

\* TestCaseDocument validation: the content holds a Markdown heading, the
\* issue number is positive, context_sources is a list of integers.
ValidDocument(d) ==
    /\ d.content = "# markdown"
    /\ d.issue_number > 0
    /\ \A i \in 1..Len(d.context_sources) : d.context_sources[i] # None
    /\ (d.pr_number = None) = (d.pr_url = None)

\* _generate_node.
GenerateNodeOut(s, o, e) ==
    LET context == s.context
        docs == IF context = None THEN <<>> ELSE Val(context)
        context_sources == [i \in 1..Len(docs) |-> docs[i].issue_number]
        document == [issue_number |-> e.issue_number,
                     content |-> o.content,
                     metadata |-> {"issue", "generated_at", "ai_model", "context_sources"},
                     branch_name |-> <<"test-cases/issue-", e.issue_number>>,
                     pr_number |-> None,
                     pr_url |-> None,
                     context_sources |-> context_sources,
                     correlation_id |-> s.job.correlation_id]
        llm(res) == <<Call("llm_generate", res)>>
    IN IF o.kind = "timeout"
       THEN NodeOk([s EXCEPT !.error = Some(<<"AI generation timeout after 120s">>)],
                   llm("timeout"), 0, <<>>)
       ELSE IF o.kind = "raise"
       THEN NodeOk([s EXCEPT !.error = Some(<<"AI generation failed: ">> \o o.msg)],
                   llm("raise"), 0, <<>>)
       ELSE IF ValidDocument(document)
       THEN NodeOk([s EXCEPT !.test_document = Some(document)], llm("ok"), 0, <<>>)
       ELSE NodeRaise(ValidationMsg, llm("unusable"), 0)

\* CommitNodeOut going on to the file commit after create_branch raised.
CommitNodeOutIgnoresBranchFailure(s, o) ==
    LET repo(res) == <<Call("get_repo", res)>>
        branch(res) == repo("ok") \o <<Call("get_branch", res)>>
        create(res) == branch("ok") \o <<Call("create_branch", res)>>
        created == create(IF o.failAt = "create_branch" THEN "raise"
                          ELSE IF o.exists THEN "exists" ELSE "ok")
        updated == [s.job EXCEPT !.completed_at = None, !.error_message = None,
                                 !.error_code = None, !.current_stage = "CREATE_PR"]
    IN IF o.failAt = "get_repo" THEN NodeRaise(o.msg, repo("raise"), 0)
       ELSE IF o.failAt = "get_branch" THEN NodeRaise(o.msg, branch("raise"), 0)
       ELSE IF s.test_document = None THEN NodeRaise(NoneAttributeMsg, branch("ok"), 0)
       ELSE IF o.failAt = "create_or_update_file"
       THEN NodeRaise(o.msg, created \o <<Call("create_or_update_file", "raise")>>, 0)
       ELSE IF ValidJob(updated)
       THEN NodeOk([s EXCEPT !.job = updated],
                   created \o <<Call("create_or_update_file", "ok")>>, 0, <<updated>>)
       ELSE NodeRaise(ValidationMsg, created \o <<Call("create_or_update_file", "ok")>>, 0)

\* _commit_node: get_repo, get_branch, create_branch, create_or_update_file,
\* then the job moves to CREATE_PR. test_document.branch_name is read while
\* the arguments of create_branch are built.
CommitNodeOut(s, o) ==
    LET repo(res) == <<Call("get_repo", res)>>
        branch(res) == repo("ok") \o <<Call("get_branch", res)>>
        create(res) == branch("ok") \o <<Call("create_branch", res)>>
        created == create(IF o.exists THEN "exists" ELSE "ok")
        updated == [s.job EXCEPT !.completed_at = None, !.error_message = None,
                                 !.error_code = None, !.current_stage = "CREATE_PR"]
    IN IF o.failAt = "get_repo" THEN NodeRaise(o.msg, repo("raise"), 0)
       ELSE IF o.failAt = "get_branch" THEN NodeRaise(o.msg, branch("raise"), 0)
       ELSE IF s.test_document = None THEN NodeRaise(NoneAttributeMsg, branch("ok"), 0)
       ELSE IF o.failAt = "create_branch" THEN NodeRaise(o.msg, create("raise"), 0)
       ELSE IF o.failAt = "create_or_update_file"
       THEN NodeRaise(o.msg, created \o <<Call("create_or_update_file", "raise")>>, 0)
       ELSE IF ValidJob(updated)
       THEN NodeOk([s EXCEPT !.job = updated],
                   created \o <<Call("create_or_update_file", "ok")>>, 0, <<updated>>)
       ELSE NodeRaise(ValidationMsg, created \o <<Call("create_or_update_file", "ok")>>, 0)

\* The names a repository's default branch may have.
DefaultBranches == {"main", "develop"}

\* The arguments _create_pr_node passes to create_pull_request; the body is
\* given by the issue it announces and the issue its "Closes #n" line names
\* (the title, copied from the document, is left out).
CreatePullRequestArgs(document, e) ==
    [repo_full_name |-> e.repository,
     body |-> [about |-> document.issue_number, closes |-> document.issue_number],
     head |-> document.branch_name,
     base |-> "main"]

\* CreatePrNodeOut copying the pull request's number and not its URL.
CreatePrNodeOutNumberOnly(s, o, pr) ==
    IF ~o.ok THEN NodeRaise(o.msg, <<Call("create_pull_request", "raise")>>, 0)
    ELSE NodeOk([s EXCEPT !.test_document =
                     Some([Val(s.test_document) EXCEPT !.pr_number = Some(pr.number)])],
                <<Call("create_pull_request", "ok")>>, 0, <<>>)

\* _create_pr_node: the pull request is opened and the document is replaced by
\* a copy carrying its number and URL; the job is left as it is.
CreatePrNodeOut(s, o, pr) ==
    IF ~o.ok THEN NodeRaise(o.msg, <<Call("create_pull_request", "raise")>>, 0)
    ELSE NodeOk([s EXCEPT !.test_document =
                     Some([Val(s.test_document) EXCEPT !.pr_number = Some(pr.number),
                                                       !.pr_url = Some(pr.html_url)])],
                <<Call("create_pull_request", "ok")>>, 0, <<>>)

\* _finalize_node: the issue comment, then the COMPLETED job.
FinalizeNodeOut(s, o, now) ==
    LET completed == [s.job EXCEPT !.status = "COMPLETED", !.completed_at = Some(now),
                                   !.error_message = None, !.error_code = None,
                                   !.current_stage = "FINALIZE"]
    IN IF ~o.ok THEN NodeRaise(o.msg, <<Call("add_issue_comment", "raise")>>, 0)
       ELSE IF ValidJob(completed)
       THEN NodeOk([s EXCEPT !.job = completed], <<Call("add_issue_comment", "ok")>>, 1,
                   <<completed>>)
       ELSE NodeRaise(ValidationMsg, <<Call("add_issue_comment", "ok")>>, 1)

\* ---------------------------------------------------------------- execute_workflow
\* The job execute_workflow builds when the final state carries an error.
ErrorStateJob(job, error, now) ==
    [job EXCEPT !.status = "FAILED", !.completed_at = Some(now),
                !.error_message = error, !.error_code = Some("E301")]

\* ExceptionJob forgetting completed_at.
ExceptionJobNoCompletion(job, msg, now) ==
    [job EXCEPT !.status = "FAILED", !.error_message = Some(msg), !.error_code = Some("E300")]

\* The job the except block of execute_workflow builds from the exception.
ExceptionJob(job, msg, now) ==
    [job EXCEPT !.status = "FAILED", !.completed_at = Some(now),
                !.error_message = Some(msg), !.error_code = Some("E300")]

Returned(job) == [kind |-> "returned", job |-> Some(job)]
Raised == [kind |-> "raised", job |-> None]

\* The except block: the failed job is returned, unless its construction
\* fails validation, and then the ValidationError leaves execute_workflow.
ExceptBlock(job, msg, now) ==
    LET failed == ExceptionJob(job, msg, now)
    IN IF ValidJob(failed) THEN Returned(failed) ELSE Raised

\* WorkflowEnds storing the result while the task stays where it was.
WorkflowEndsTaskGoesOn(r, end, cs, reads, built) ==
    /\ pc' = pc
    /\ st' = st
    /\ ret' = [ret EXCEPT ![r] = Some(end)]
    /\ calls' = [calls EXCEPT ![r] = @ \o cs]
    /\ clock' = clock + reads
    /\ jobs' = IF end.kind = "returned"
               THEN [jobs EXCEPT ![Val(injob[r]).job_id] = Val(end.job)]
               ELSE jobs
    /\ snaps' = [snaps EXCEPT ![r] = @ \o built]
    /\ UNCHANGED <<redis, hpc, hin, resp, ev, injob, cand, accepted, gwr, poll, sched, cbr>>

\* execute_workflow ends and process_webhook_background finishes: a returned
\* job replaces the registry entry of the input job's id; an exception is
\* logged and the registry is left as it is.
WorkflowEnds(r, end, cs, reads, built) ==
    /\ pc' = [pc EXCEPT ![r] = "done"]
    /\ st' = [st EXCEPT ![r] = None]
    /\ ret' = [ret EXCEPT ![r] = Some(end)]
    /\ calls' = [calls EXCEPT ![r] = @ \o cs]
    /\ clock' = clock + reads
    /\ IF end.kind = "returned"
       THEN /\ jobs' = [jobs EXCEPT ![Val(injob[r]).job_id] = Val(end.job)]
            /\ snaps' = [snaps EXCEPT ![r] = @ \o built]
       ELSE /\ jobs' = jobs
            /\ snaps' = [snaps EXCEPT ![r] = @ \o built]
    /\ UNCHANGED <<redis, hpc, hin, resp, ev, injob, cand, accepted, gwr, poll, sched, cbr>>

\* NodeStep keeping the workflow state in one place shared by all runs.
NodeStepSharedState(r, out, next) ==
    IF out.ok
    THEN /\ st' = [q \in Reqs |-> IF st[q] = None THEN None ELSE Some(out.state)]
         /\ pc' = [pc EXCEPT ![r] = next]
         /\ calls' = [calls EXCEPT ![r] = @ \o out.calls]
         /\ clock' = clock + out.reads
         /\ snaps' = [snaps EXCEPT ![r] = @ \o out.built]
         /\ UNCHANGED <<redis, jobs, hpc, hin, resp, ev, injob, ret, cand, accepted, gwr, poll, sched, cbr>>
    ELSE LET end == ExceptBlock(Val(injob[r]), out.msg, clock + out.reads)
         IN WorkflowEnds(r, end, out.calls, out.reads + 1,
                         IF end.kind = "returned" THEN <<Val(end.job)>> ELSE <<>>)

\* A node other than the last one ran: the graph moves to the next node, or
\* the node's exception reaches the except block of execute_workflow.
NodeStep(r, out, next) ==
    IF out.ok
    THEN /\ st' = [st EXCEPT ![r] = Some(out.state)]
         /\ pc' = [pc EXCEPT ![r] = next]
         /\ calls' = [calls EXCEPT ![r] = @ \o out.calls]
         /\ clock' = clock + out.reads
         /\ snaps' = [snaps EXCEPT ![r] = @ \o out.built]
         /\ UNCHANGED <<redis, jobs, hpc, hin, resp, ev, injob, ret, cand, accepted, gwr, poll, sched, cbr>>
    ELSE LET end == ExceptBlock(Val(injob[r]), out.msg, clock + out.reads)
         IN WorkflowEnds(r, end, out.calls, out.reads + 1,
                         IF end.kind = "returned" THEN <<Val(end.job)>> ELSE <<>>)

ReceiveNode(r) ==
    /\ pc[r] = "receive"
    /\ NodeStep(r, ReceiveNodeOut(Val(st[r])), "retrieve")
    /\ pulls' = pulls

RetrieveNode(r) ==
    /\ pc[r] = "retrieve"
    /\ \E o \in RetrieveOutcomes : NodeStep(r, RetrieveNodeOut(Val(st[r]), o), "generate")
    /\ pulls' = pulls

\* _generate_node ends with one of the outcomes os.
GenerateWith(r, os) ==
    /\ pc[r] = "generate"
    /\ \E o \in os :
         NodeStep(r, GenerateNodeOut(Val(st[r]), o, Val(ev[r])), "commit")
    /\ pulls' = pulls

\* The generation client answered (text or an exception) within the timeout.
GenerateAnswered(r) == GenerateWith(r, AnswerOutcomes)

\* The timer of asyncio.timeout(self.timeout) expired before any answer.
GenerateTimeout(r) == GenerateWith(r, TimeoutOutcomes)

GenerateNode(r) == GenerateAnswered(r) \/ GenerateTimeout(r)

CommitNode(r) ==
    /\ pc[r] = "commit"
    /\ \E o \in CommitOutcomes : NodeStep(r, CommitNodeOut(Val(st[r]), o), "create_pr")
    /\ pulls' = pulls

\* GitHub opens the pull request it is asked for, in a repository whose
\* default branch is d at that moment.
CreatePrNode(r) ==
    /\ pc[r] = "create_pr"
    /\ \E o \in CallOutcomes, d \in DefaultBranches :
         /\ NodeStep(r, CreatePrNodeOut(Val(st[r]), o, PullRequest(r)), "finalize")
         /\ pulls' = IF o.ok
                      THEN pulls \cup {[number |-> PullRequest(r).number,
                                         default_branch |-> d,
                                         args |-> CreatePullRequestArgs(
                                                      Val(Val(st[r]).test_document),
                                                      Val(ev[r]))]}
                      ELSE pulls

\* The last node, and the rest of execute_workflow after ainvoke returned: a
\* truthy state["error"] makes the job FAILED, otherwise the state's job is
\* returned.
FinalizeNode(r) ==
    /\ pc[r] = "finalize"
    /\ pulls' = pulls
    /\ \E o \in CallOutcomes :
         LET out == FinalizeNodeOut(Val(st[r]), o, clock)
             job == Val(injob[r])
             after == clock + out.reads
         IN IF ~out.ok
            THEN LET end == ExceptBlock(job, out.msg, after)
                 IN WorkflowEnds(r, end, out.calls, out.reads + 1,
                                 IF end.kind = "returned" THEN <<Val(end.job)>> ELSE <<>>)
            ELSE IF Truthy(out.state.error)
            THEN LET failed == ErrorStateJob(job, out.state.error, after)
                     end == IF ValidJob(failed) THEN Returned(failed)
                            ELSE ExceptBlock(job, ValidationMsg, after + 1)
                 IN WorkflowEnds(r, end, out.calls,
                                 out.reads + (IF ValidJob(failed) THEN 1 ELSE 2),
                                 out.built \o (IF end.kind = "returned"
                                               THEN <<Val(end.job)>> ELSE <<>>))
            ELSE WorkflowEnds(r, Returned(out.state.job), out.calls, out.reads, out.built)

\* ---------------------------------------------------------------- one run by itself
\* execute_workflow(job, e) run from start to end with nothing else going on,
\* the collaborators answering o2 (RETRIEVE), o3 (GENERATE), o4 (COMMIT),
\* o5 (CREATE_PR) and o6 (FINALIZE), every clock read giving `now`: the calls
\* it makes and how it ends.
RunAlone(job, e, pr, o2, o3, o4, o5, o6, now) ==
    LET s0 == [job |-> job, context |-> None, test_document |-> None, error |-> None]
        n1 == ReceiveNodeOut(s0)
        n2 == RetrieveNodeOut(n1.state, o2)
        n3 == GenerateNodeOut(n2.state, o3, e)
        n4 == CommitNodeOut(n3.state, o4)
        n5 == CreatePrNodeOut(n4.state, o5, pr)
        n6 == FinalizeNodeOut(n5.state, o6, now)
        c2 == n2.calls
        c3 == c2 \o n3.calls
        c4 == c3 \o n4.calls
        c5 == c4 \o n5.calls
        c6 == c5 \o n6.calls
        failed(cs, msg) == [calls |-> cs, end |-> ExceptBlock(job, msg, now)]
    IN IF ~n1.ok THEN failed(<<>>, n1.msg)
       ELSE IF ~n2.ok THEN failed(c2, n2.msg)
       ELSE IF ~n3.ok THEN failed(c3, n3.msg)
       ELSE IF ~n4.ok THEN failed(c4, n4.msg)
       ELSE IF ~n5.ok THEN failed(c5, n5.msg)
       ELSE IF ~n6.ok THEN failed(c6, n6.msg)
       ELSE IF Truthy(n6.state.error)
       THEN [calls |-> c6, end |-> Returned(ErrorStateJob(job, n6.state.error, now))]
       ELSE [calls |-> c6, end |-> Returned(n6.state.job)]

\* The event and the job github_webhook makes of delivery r for issue i.
EventOf(r, i) ==
    [event_id |-> Uuid(r, 2), event_type |-> "issues.labeled", issue_number |-> i,
     repository |-> Repository, correlation_id |-> Uuid(r, 1)]

\* A result without its times: started_at and completed_at depend on when
\* the run happens, not on what it does.
Timeless(end) ==
    IF end.kind = "raised" THEN end
    ELSE Returned([Val(end.job) EXCEPT !.started_at = 0,
                                       !.completed_at = IF @ = None THEN None ELSE Some(1)])

\* For each delivery, every (calls, result) a run of its job by itself can
\* have, over all issues and collaborator answers.
AloneResults ==
    [r \in Reqs |->
        {LET run == RunAlone(InitialJob(r, EventOf(r, i), 0), EventOf(r, i), PullRequest(r),
                             o2, o3, o4, o5, o6, 1)
         IN <<run.calls, Timeless(run.end)>> :
            i \in 1..MaxIssue, o2 \in RetrieveOutcomes, o3 \in GenerateOutcomes,
            o4 \in CommitOutcomes, o5 \in CallOutcomes, o6 \in CallOutcomes}]

\* ---------------------------------------------------------------- specification
Init ==
    /\ clock = 1
    /\ redis = {}
    /\ jobs = <<>>
    /\ hpc = [r \in Reqs |-> "idle"]
    /\ hin = [r \in Reqs |-> None]
    /\ resp = [r \in Reqs |-> None]
    /\ ev = [r \in Reqs |-> None]
    /\ injob = [r \in Reqs |-> None]
    /\ pc = [r \in Reqs |-> "idle"]
    /\ st = [r \in Reqs |-> None]
    /\ ret = [r \in Reqs |-> None]
    /\ calls = [r \in Reqs |-> <<>>]
    /\ snaps = [r \in Reqs |-> <<>>]
    /\ cand = None
    /\ accepted = None
    /\ gwr = GwrIdle
    /\ poll = None
    /\ sched = [r \in Reqs |-> TaskIdle]
    /\ pulls = {}
    /\ cbr = CbrIdle

\* A step of delivery r: its handler, or a node of its background task.
Delivery(r) ==
    \/ WebhookArrive(r)
    \/ WebhookReserve(r)
    \/ ReceiveNode(r)
    \/ RetrieveNode(r)
    \/ GenerateNode(r)
    \/ CommitNode(r)
    \/ CreatePrNode(r)
    \/ FinalizeNode(r)

Next == \E r \in Reqs : Delivery(r)

Spec == Init /\ [][Next]_vars

\* The graph nodes of run r whose collaborator calls end, and the timer of
\* the generation wait; the generation client itself may stay silent.
Fairness(r) ==
    /\ WF_vars(ReceiveNode(r))
    /\ WF_vars(RetrieveNode(r))
    /\ WF_vars(GenerateTimeout(r))
    /\ WF_vars(CommitNode(r))
    /\ WF_vars(CreatePrNode(r))
    /\ WF_vars(FinalizeNode(r))

\* One delivery and its run, the event loop going on as long as a node or
\* the timer is due.
NextOne == Delivery(1)

SpecLive == Init /\ [][NextOne]_vars /\ Fairness(1)

\* ---------------------------------------------------------------- ProcessingJob on its own
\* Constructor calls of ProcessingJob with every field given: the statuses,
\* completion times around started_at, error fields present, empty or absent,
\* and retry counts inside and outside the field's range.
JobArguments ==
    {[InitialJob(1, [event_id |-> Uuid(1, 2), repository |-> Repository, issue_number |-> 1], 1)
        EXCEPT !.status = s, !.completed_at = c, !.error_message = m,
               !.error_code = k, !.retry_count = n] :
        s \in JobStatus, c \in {None} \cup {Some(t) : t \in 0..2},
        m \in {None} \cup {Some(x) : x \in Msgs},
        k \in {None, Some("E301")}, n \in {0, RetryCountMax, RetryCountMax + 1}}

\* ProcessingJob(**a): the validated model, or ValidationError.
ConstructJob ==
    /\ \E a \in JobArguments :
         /\ cand' = Some(a)
         /\ accepted' = IF ValidJob(a) THEN Some(a) ELSE None
    /\ UNCHANGED <<clock, redis, jobs, hpc, hin, resp, ev, injob, pc, st, ret, calls, snaps, gwr, poll, sched, pulls, cbr>>

SpecModel == Init /\ [][ConstructJob]_vars

\* ---------------------------------------------------------------- generate_with_retries on its own
MaxRetries == 4   \* max_retries values 0..MaxRetries

\* self.retry_delays (config RETRY_DELAYS) and the retry_delays of the job.
RetryDelayLists == {<<>>, <<5>>, DefaultRetryDelays}
JobDelayLists == {<<5>>, DefaultRetryDelays}

\* The event the call is made for.
GwrEvent == [event_id |-> Uuid(1, 2), repository |-> Repository, issue_number |-> 1]

\* An entry of the call's trace: a generation client call and how it ended,
\* a ProcessingJob built after a failed attempt, or a sleep and its delay.
Event(kind, attempt, res, job, delay) ==
    [kind |-> kind, attempt |-> attempt, res |-> res, job |-> job, delay |-> delay]

\* generate_test_cases: the LLM call under the timeout, then the document.
\* A timeout becomes AITimeoutError, any other exception AIGenerationError;
\* the document is built outside the try block.
GenerateTestCases(job, e, context, o) ==
    LET context_sources == [i \in 1..Len(context) |-> context[i].issue_number]
        document == [issue_number |-> e.issue_number,
                     content |-> o.content,
                     metadata |-> {"issue", "generated_at", "ai_model", "context_sources"},
                     branch_name |-> <<"test-cases/issue-", e.issue_number>>,
                     pr_number |-> None,
                     pr_url |-> None,
                     context_sources |-> context_sources,
                     correlation_id |-> job.correlation_id]
    IN IF o.kind = "timeout"
       THEN [ok |-> FALSE, error |-> "AITimeoutError", doc |-> None, res |-> "timeout"]
       ELSE IF o.kind = "raise"
       THEN [ok |-> FALSE, error |-> "AIGenerationError", doc |-> None, res |-> "raise"]
       ELSE IF ValidDocument(document)
       THEN [ok |-> TRUE, error |-> "", doc |-> Some(document), res |-> "ok"]
       ELSE [ok |-> FALSE, error |-> "ValidationError", doc |-> None, res |-> "unusable"]

\* RetryJob leaving retry_delays to the field's default.
RetryJobDefaultDelays(job, attempt, now) ==
    [job EXCEPT !.completed_at = None, !.error_message = None, !.error_code = None,
                !.retry_count = attempt + 1, !.last_retry_at = Some(now),
                !.retry_delays = DefaultRetryDelays]

\* The job generate_with_retries builds after failed attempt `attempt`.
RetryJob(job, attempt, now) ==
    [job EXCEPT !.completed_at = None, !.error_message = None, !.error_code = None,
                !.retry_count = attempt + 1, !.last_retry_at = Some(now)]

\* RetryDelay always taking the first delay.
RetryDelayFirst(delays, attempt) == delays[1]

\* The delay slept after failed attempt `attempt` (0-indexed), for a list
\* that is not empty.
RetryDelay(delays, attempt) ==
    IF attempt < Len(delays) THEN delays[attempt + 1] ELSE delays[Len(delays)]

\* The exception a call ended with, and the attempt it came from (-1: none).
GwrError(kind, attempt) == Some([kind |-> kind, attempt |-> attempt])

\* generate_with_retries is called: range(retries) is empty for retries = 0
\* and the function raises "All retries exhausted without error" at once.
GwrCall ==
    /\ gwr.pc = "idle"
    /\ LoopFree
    /\ \E n \in 0..MaxRetries, ds \in RetryDelayLists, jd \in JobDelayLists, ctx \in DocLists :
         LET job == [ReceiveTransition(InitialJob(1, GwrEvent, 0)) EXCEPT !.retry_delays = jd]
             frame == [pc |-> "attempt", retries |-> n, delays |-> ds, arg |-> job,
                       job |-> job, context |-> ctx, attempt |-> 0, trace |-> <<>>,
                       error |-> None, doc |-> None]
         IN gwr' = IF n = 0
                   THEN [frame EXCEPT !.pc = "raised",
                                      !.error = GwrError("AIGenerationError", -1)]
                   ELSE frame
    /\ UNCHANGED <<clock, redis, jobs, hpc, hin, resp, ev, injob, pc, st, ret, calls, snaps,
                   cand, accepted, poll, sched, pulls, cbr>>

\* One turn of the loop up to its next await: generate_test_cases returns or
\* raises; only AIGenerationError is caught, the job is rebuilt with
\* retry_count = attempt + 1, and unless this was the last attempt the delay
\* is looked up in self.retry_delays and the sleep starts.
GwrAttempt ==
    /\ gwr.pc = "attempt"
    /\ LoopFree
    /\ \E o \in GenerateOutcomes :
         LET out == GenerateTestCases(gwr.job, GwrEvent, gwr.context, o)
             called == Append(gwr.trace, Event("generate", gwr.attempt, out.res, None, 0))
             job == RetryJob(gwr.job, gwr.attempt, clock)
             built == Append(called, Event("job", gwr.attempt, "", Some(job), 0))
             raised(kind, trace) == [gwr EXCEPT !.pc = "raised", !.trace = trace,
                                                !.error = GwrError(kind, gwr.attempt)]
         IN IF out.ok
            THEN /\ gwr' = [gwr EXCEPT !.pc = "returned", !.trace = called, !.doc = out.doc]
                 /\ clock' = clock
            ELSE IF out.error # "AIGenerationError"
            THEN /\ gwr' = raised(out.error, called)
                 /\ clock' = clock
            ELSE /\ clock' = clock + 1
                 /\ gwr' =
                      IF ~ValidJob(job) THEN raised("ValidationError", called)
                      ELSE IF ~(gwr.attempt < gwr.retries - 1)
                      THEN [raised("AIGenerationError", built) EXCEPT !.job = job]
                      ELSE IF Len(gwr.delays) = 0
                      THEN [raised("IndexError", built) EXCEPT !.job = job]
                      ELSE [gwr EXCEPT
                              !.pc = "sleeping", !.job = job,
                              !.trace = Append(built,
                                  Event("sleep", gwr.attempt, "", None,
                                        RetryDelay(gwr.delays, gwr.attempt)))]
    /\ UNCHANGED <<redis, jobs, hpc, hin, resp, ev, injob, pc, st, ret, calls, snaps,
                   cand, accepted, poll, sched, pulls, cbr>>

\* asyncio.sleep(delay) is over: the loop goes to its next attempt.
GwrWake ==
    /\ gwr.pc = "sleeping"
    /\ LoopFree \/ HeldBySleep
    /\ gwr' = [gwr EXCEPT !.pc = "attempt", !.attempt = @ + 1]
    /\ UNCHANGED <<clock, redis, jobs, hpc, hin, resp, ev, injob, pc, st, ret, calls, snaps,
                   cand, accepted, poll, sched, pulls, cbr>>

\* ---------------------------------------------------------------- status queries
\* JobResponse never reporting completed_at.
JobResponseNoCompletedAt(job) ==
    [job_id |-> job.job_id,
     correlation_id |-> job.correlation_id,
     webhook_event_id |-> job.webhook_event_id,
     status |-> job.status,
     current_stage |-> job.current_stage,
     error_message |-> job.error_message,
     error_code |-> job.error_code,
     retry_count |-> job.retry_count,
     started_at |-> job.started_at,
     completed_at |-> None,
     last_retry_at |-> job.last_retry_at]

\* The body get_job_status returns for a stored job.
JobResponse(job) ==
    [job_id |-> job.job_id,
     correlation_id |-> job.correlation_id,
     webhook_event_id |-> job.webhook_event_id,
     status |-> job.status,
     current_stage |-> job.current_stage,
     error_message |-> job.error_message,
     error_code |-> job.error_code,
     retry_count |-> job.retry_count,
     started_at |-> job.started_at,
     completed_at |-> job.completed_at,
     last_retry_at |-> job.last_retry_at]

\* GetJobStatus answering 404 for a job that has not started.
GetJobStatusPendingIsMissing(id, registry) ==
    IF id \notin DOMAIN registry \/ registry[id].status = "PENDING"
    THEN [code |-> 404, job_id |-> id, body |-> None]
    ELSE [code |-> 200, job_id |-> id, body |-> Some(JobResponse(registry[id]))]

\* get_job_status: 404 when the id is not in the registry, else the fields
\* of the entry.
GetJobStatus(id, registry) ==
    IF id \notin DOMAIN registry
    THEN [code |-> 404, job_id |-> id, body |-> None]
    ELSE [code |-> 200, job_id |-> id, body |-> Some(JobResponse(registry[id]))]

\* The ids a client asks for: those of the jobs the deliveries create.
JobIds == {Uuid(r, 4) : r \in Reqs}

\* A status query is handled (the handler has no await: it runs in one go
\* whenever the event loop is free).
Poll ==
    /\ LoopFree
    /\ \E id \in JobIds : poll' = Some(GetJobStatus(id, jobs))
    /\ UNCHANGED <<clock, redis, jobs, hpc, hin, resp, ev, injob, pc, st, ret, calls, snaps,
                   cand, accepted, gwr, sched, pulls, cbr>>

NextPoll == Next \/ Poll

SpecPoll == Init /\ [][NextPoll]_vars

\* ---------------------------------------------------------------- tasks on the event loop
\* Task r, ready to run, is given the thread and makes its next I/O call.
CallStart(r) ==
    /\ LoopFree
    /\ ~sched[r].waiting
    /\ sched[r].pos < Len(PipelineCalls)
    /\ sched' = [sched EXCEPT ![r].waiting = TRUE]
    /\ UNCHANGED <<clock, redis, jobs, hpc, hin, resp, ev, injob, pc, st, ret, calls, snaps,
                   cand, accepted, gwr, poll, pulls, cbr>>

\* The call of task r returns: a task that held the thread goes on, a
\* suspended task is resumed once the loop is free.
CallReturn(r) ==
    /\ sched[r].waiting
    /\ LoopFree \/ HeldBy(r)
    /\ sched' = [sched EXCEPT ![r] = [pos |-> @.pos + 1, waiting |-> FALSE]]
    /\ UNCHANGED <<clock, redis, jobs, hpc, hin, resp, ev, injob, pc, st, ret, calls, snaps,
                   cand, accepted, gwr, poll, pulls, cbr>>

NextRetries == GwrCall \/ GwrAttempt \/ GwrWake

SpecRetries == Init /\ [][NextRetries]_vars

\* One delivery and a call of generate_with_retries, side by side: every
\* place where a ProcessingJob is rebuilt from another.
NextSnapshots == NextOne \/ NextRetries

SpecSnapshots == Init /\ [][NextSnapshots]_vars

NextLoop == NextRetries \/ Poll \/ \E r \in Reqs : CallStart(r) \/ CallReturn(r)

SpecLoop == Init /\ [][NextLoop]_vars

\* ---------------------------------------------------------------- create_branch_with_retry
MaxBranchRetries == 4   \* max_retries values 0..MaxBranchRetries

\* What github_client.create_branch does in one attempt: it returns, or it
\* raises GitHubBranchExistsError, GitHubRateLimitError, a GitHubAPIError
\* whose details carry a status or none, or some other exception.
CreateBranchOutcomes ==
    {[kind |-> k, status |-> None] : k \in {"ok", "exists", "rate_limit", "other"}}
    \cup {[kind |-> "api", status |-> x] : x \in {None, Some(404), Some(500), Some(502)}}

\* CreateBranch wrapping every exception in a GitHubAPIError.
CreateBranchWrapsAll(o) ==
    IF o.kind = "ok" THEN [ok |-> TRUE, error |-> "", status |-> None]
    ELSE [ok |-> FALSE, error |-> "GitHubAPIError", status |-> o.status]

\* GitHubService.create_branch: the three GitHub errors pass through, any
\* other exception is wrapped in a GitHubAPIError whose details have no status.
CreateBranch(o) ==
    CASE o.kind = "ok" -> [ok |-> TRUE, error |-> "", status |-> None]
      [] o.kind = "exists" -> [ok |-> FALSE, error |-> "GitHubBranchExistsError", status |-> None]
      [] o.kind = "rate_limit" -> [ok |-> FALSE, error |-> "GitHubRateLimitError", status |-> None]
      [] o.kind = "api" -> [ok |-> FALSE, error |-> "GitHubAPIError", status |-> o.status]
      [] o.kind = "other" -> [ok |-> FALSE, error |-> "GitHubAPIError", status |-> None]

\* e.details.get("status", 0)
StatusOf(e) == IF e.status = None THEN 0 ELSE Val(e.status)

\* An entry of the call's trace: an attempt (what the client did, how
\* create_branch ended, the status of its error) or a sleep.
BranchEvent(kind, attempt, client, res, status, delay) ==
    [kind |-> kind, attempt |-> attempt, client |-> client, res |-> res,
     status |-> status, delay |-> delay]

\* 2 ** attempt
BranchBackoff(attempt) == 2 ^ attempt

\* RetriesTransient retrying every GitHubAPIError.
RetriesTransientAnyStatus(status, attempt, max_retries) == attempt < max_retries - 1

\* The test that sends the loop to its sleep: a 5xx status and attempts left.
RetriesTransient(status, attempt, max_retries) ==
    status >= 500 /\ attempt < max_retries - 1

\* create_branch_with_retry is called: range(max_retries) is empty for
\* max_retries = 0, last_error is still None and the function returns.
CbrCall ==
    /\ cbr.pc = "idle"
    /\ \E n \in 0..MaxBranchRetries :
         cbr' = [pc |-> IF n = 0 THEN "returned" ELSE "attempt",
                 max_retries |-> n, attempt |-> 0, trace |-> <<>>,
                 error |-> None, last_error |-> None]
    /\ UNCHANGED <<clock, redis, jobs, hpc, hin, resp, ev, injob, pc, st, ret, calls, snaps,
                   cand, accepted, gwr, poll, sched, pulls>>

\* One turn of the loop up to its next await: create_branch returns, or its
\* error is raised on, or (GitHubAPIError with a 5xx status and attempts
\* left) the sleep starts.
CbrAttempt ==
    /\ cbr.pc = "attempt"
    /\ \E o \in CreateBranchOutcomes :
         LET out == CreateBranch(o)
             e == [kind |-> out.error, status |-> out.status, attempt |-> cbr.attempt]
             called == Append(cbr.trace,
                              BranchEvent("create_branch", cbr.attempt, o.kind,
                                          IF out.ok THEN "ok" ELSE out.error,
                                          StatusOf(out), 0))
             slept == Append(called, BranchEvent("sleep", cbr.attempt, "", "", 0,
                                                 BranchBackoff(cbr.attempt)))
         IN cbr' =
              IF out.ok THEN [cbr EXCEPT !.pc = "returned", !.trace = called]
              ELSE IF out.error \in {"GitHubBranchExistsError", "GitHubRateLimitError"}
              THEN [cbr EXCEPT !.pc = "raised", !.trace = called, !.error = Some(e)]
              ELSE IF RetriesTransient(StatusOf(e), cbr.attempt, cbr.max_retries)
              THEN [cbr EXCEPT !.pc = "sleeping", !.trace = slept, !.last_error = Some(e)]
              ELSE [cbr EXCEPT !.pc = "raised", !.trace = called, !.error = Some(e),
                               !.last_error = Some(e)]
    /\ UNCHANGED <<clock, redis, jobs, hpc, hin, resp, ev, injob, pc, st, ret, calls, snaps,
                   cand, accepted, gwr, poll, sched, pulls>>

\* asyncio.sleep(2 ** attempt) is over: the loop goes to its next attempt.
CbrWake ==
    /\ cbr.pc = "sleeping"
    /\ cbr' = [cbr EXCEPT !.pc = "attempt", !.attempt = @ + 1]
    /\ UNCHANGED <<clock, redis, jobs, hpc, hin, resp, ev, injob, pc, st, ret, calls, snaps,
                   cand, accepted, gwr, poll, sched, pulls>>

NextBranch == CbrCall \/ CbrAttempt \/ CbrWake

SpecBranch == Init /\ [][NextBranch]_vars

\* ---------------------------------------------------------------- claims
Terminal == {"COMPLETED", "FAILED"}

Ended(r) == ret[r] # None
ReturnedJob(r) == Val(Val(ret[r]).job)
HasReturned(r) == Ended(r) /\ Val(ret[r]).kind = "returned"
Made(r, c) == \E i \in 1..Len(calls[r]) : calls[r][i] = c

\* The stage (its position in WorkflowStage) a collaborator call belongs to.
StageOfOp(op) ==
    CASE op \in {"generate_embedding", "query_similar"} -> 2
      [] op = "llm_generate" -> 3
      [] op \in {"get_repo", "get_branch", "create_branch", "create_or_update_file"} -> 4
      [] op = "create_pull_request" -> 5
      [] op = "add_issue_comment" -> 6

StageIndex(stage) == CHOOSE i \in 1..Len(WorkflowStage) : WorkflowStage[i] = stage

\* The stage failures the claims name: a query error, a generation error or
\* timeout, a branch, commit, pull-request or comment error.
StageFailure(c) ==
    /\ c.res \in {"raise", "timeout"}
    /\ c.op \in {"query_similar", "llm_generate", "create_branch",
                 "create_or_update_file", "create_pull_request", "add_issue_comment"}

\* Call i of the run is a stage failure and no other call of the run failed.
OnlyFailure(r, i) ==
    /\ StageFailure(calls[r][i])
    /\ \A k \in 1..Len(calls[r]) : k # i => calls[r][k].res \in {"ok", "exists"}

LaterStageOps ==
    {"llm_generate", "create_branch", "create_or_update_file",
     "create_pull_request", "add_issue_comment"}

\* C1: execute_workflow never raises, whatever the collaborators do (also when
\* an exception's message is empty): it returns a job whose status is
\* COMPLETED or FAILED, and an exception of a publisher call yields a FAILED
\* job with the internal-error code E300.
C1_NeverRaisesAlwaysTerminal ==
    \A r \in Reqs :
        Ended(r) =>
            /\ HasReturned(r)
            /\ ReturnedJob(r).status \in Terminal
            /\ (\E i \in 1..Len(calls[r]) :
                    calls[r][i].res = "raise" /\ StageOfOp(calls[r][i].op) >= 4)
                 => /\ ReturnedJob(r).status = "FAILED"
                    /\ ReturnedJob(r).error_code = Some("E300")

\* C2: when the background task of an accepted webhook has finished, the
\* registry entry of its job holds a COMPLETED or FAILED snapshot, never a
\* PENDING or PROCESSING one.
C2_FinishedTaskLeavesTerminalSnapshot ==
    \A r \in Reqs :
        pc[r] = "done" => jobs[Val(injob[r]).job_id].status \in Terminal

\* C3: once a stage has failed in a run, no collaborator call of a later stage
\* (LLM generate, create_branch, create_or_update_file, create_pull_request,
\* add_issue_comment) is made in that run.
C3_FailureShortCircuits ==
    \A r \in Reqs :
        \A i, j \in 1..Len(calls[r]) :
            ~ /\ i < j
              /\ StageFailure(calls[r][i])
              /\ calls[r][j].op \in LaterStageOps
              /\ StageOfOp(calls[r][j].op) > StageOfOp(calls[r][i].op)

\* C4: a FAILED job returned by execute_workflow has as current_stage the
\* stage in which a failure occurred (RETRIEVE for a query error, GENERATE
\* for a generation error or timeout, COMMIT for a branch or commit error,
\* CREATE_PR for a pull-request error, FINALIZE for a comment error).
C4_FailedJobStaysAtFailedStage ==
    \A r \in Reqs :
        \A i \in 1..Len(calls[r]) :
            ( /\ HasReturned(r)
              /\ ReturnedJob(r).status = "FAILED"
              /\ OnlyFailure(r, i) )
            => ReturnedJob(r).current_stage = WorkflowStage[StageOfOp(calls[r][i].op)]

\* C5: over the snapshots of one job, current_stage only ever moves to the
\* immediately next stage of RECEIVE, RETRIEVE, GENERATE, COMMIT, CREATE_PR,
\* FINALIZE: no stage is skipped and the stage never moves backwards.
C5_StageMovesToNextOnly ==
    \A r \in Reqs :
        \A i \in 1..(Len(snaps[r]) - 1) :
            LET a == StageIndex(snaps[r][i].current_stage)
                b == StageIndex(snaps[r][i + 1].current_stage)
            IN b = a \/ b = a + 1

\* C6: the RECEIVE transition turns the PENDING job at RECEIVE into a
\* PROCESSING job at RETRIEVE without any collaborator call, and every later
\* snapshot that is not terminal still has status PROCESSING.
C6_ReceiveSetsProcessingAndItStays ==
    \A r \in Reqs :
        /\ pc[r] = "retrieve" => calls[r] = <<>>
        /\ Len(snaps[r]) >= 2 =>
              /\ snaps[r][1].status = "PENDING"
              /\ snaps[r][1].current_stage = "RECEIVE"
              /\ snaps[r][2].status = "PROCESSING"
              /\ snaps[r][2].current_stage = "RETRIEVE"
        /\ \A i \in 2..Len(snaps[r]) :
              snaps[r][i].status \notin Terminal => snaps[r][i].status = "PROCESSING"
        /\ (st[r] # None /\ pc[r] # "receive") => Val(st[r]).job.status = "PROCESSING"

\* C6 witness: a job that went through RECEIVE and COMMIT and is not terminal.
C6_Witness ==
    \E r \in Reqs :
        /\ pc[r] = "create_pr"
        /\ Len(snaps[r]) = 3
        /\ snaps[r][3].status = "PROCESSING"

CompletedAtRule(j) ==
    /\ (j.completed_at # None) <=> (j.status \in Terminal)
    /\ j.completed_at # None => Val(j.completed_at) > j.started_at

\* C7: in every snapshot the state machine builds and in every registry entry,
\* completed_at is set exactly when the status is COMPLETED or FAILED, and a
\* set completed_at is later than started_at.
C7_CompletedAtIffTerminal ==
    /\ \A r \in Reqs : \A i \in 1..Len(snaps[r]) : CompletedAtRule(snaps[r][i])
    /\ \A id \in DOMAIN jobs : CompletedAtRule(jobs[id])

\* C7 witness: the registry holds a COMPLETED job of one request and a FAILED
\* job of another, both with completed_at set.
C7_Witness ==
    \E r, q \in Reqs :
        /\ HasReturned(r) /\ HasReturned(q)
        /\ jobs[ReturnedJob(r).job_id].status = "COMPLETED"
        /\ jobs[ReturnedJob(r).job_id].completed_at # None
        /\ jobs[ReturnedJob(q).job_id].status = "FAILED"
        /\ jobs[ReturnedJob(q).job_id].completed_at # None

\* C8: every ProcessingJob the validation accepts has error_message and
\* error_code both present when its status is FAILED and both absent when
\* its status is not FAILED.
C8_AcceptedJobErrorFieldsIffFailed ==
    accepted # None =>
        LET j == Val(accepted)
        IN IF j.status = "FAILED"
           THEN j.error_message # None /\ j.error_code # None
           ELSE j.error_message = None /\ j.error_code = None

\* C9: when the similarity query fails (and no other call does),
\* execute_workflow returns a FAILED job with the vector-store error code E201.
C9_QueryFailureGivesE201 ==
    \A r \in Reqs :
        \A i \in 1..Len(calls[r]) :
        (Ended(r) /\ OnlyFailure(r, i) /\ calls[r][i] = Call("query_similar", "raise"))
        => /\ HasReturned(r)
           /\ ReturnedJob(r).status = "FAILED"
           /\ ReturnedJob(r).error_code = Some("E201")

\* C10: when the generation times out (and no other call fails),
\* execute_workflow returns a FAILED job with the timeout error code E302,
\* not the generation-failure code E301.
C10_TimeoutGivesE302 ==
    \A r \in Reqs :
        \A i \in 1..Len(calls[r]) :
        (Ended(r) /\ OnlyFailure(r, i) /\ calls[r][i] = Call("llm_generate", "timeout"))
        => /\ HasReturned(r)
           /\ ReturnedJob(r).status = "FAILED"
           /\ ReturnedJob(r).error_code = Some("E302")

\* ---------------------------------------------------------------- claims C11..C20
\* The number of entries of a sequence that satisfy Test.
CountOf(seq, Test(_)) == Cardinality({i \in 1..Len(seq) : Test(seq[i])})

IsLlmCall(c) == c.op = "llm_generate"
IsGenerate(e) == e.kind = "generate"
GwrDone == gwr.pc \in {"returned", "raised"}
GwrAttempts == CountOf(gwr.trace, IsGenerate)

\* C11: in execute_workflow (max_retries left at its default of 3), a failed
\* generation attempt (error or timeout) is followed by another call of the
\* generation client before the run ends, unless max_retries calls were made.
C11_FailedGenerationIsRetried ==
    \A r \in Reqs :
        \A i \in 1..Len(calls[r]) :
            ( /\ Ended(r)
              /\ calls[r][i].op = "llm_generate"
              /\ calls[r][i].res \in {"raise", "timeout"} )
            => \/ \E k \in (i + 1)..Len(calls[r]) : calls[r][k].op = "llm_generate"
               \/ CountOf(calls[r], IsLlmCall) >= DefaultMaxRetries

\* C12: generate_with_retries (with a delay list that is not empty) calls the
\* generation client at most max_retries times; when every attempt failed
\* with a generation error it made exactly max_retries attempts and raises the
\* AIGenerationError of the last one; when it returns, the successful attempt
\* is the last call it made.
C12_ExactlyMaxRetriesAttempts ==
    (GwrDone /\ Len(gwr.delays) > 0 /\ gwr.retries > 0) =>
        /\ GwrAttempts <= gwr.retries
        /\ gwr.pc = "returned" =>
              /\ gwr.trace[Len(gwr.trace)].kind = "generate"
              /\ gwr.trace[Len(gwr.trace)].res = "ok"
        /\ ( /\ gwr.pc = "raised"
             /\ \A i \in 1..Len(gwr.trace) :
                   IsGenerate(gwr.trace[i]) => gwr.trace[i].res = "raise" )
           => /\ GwrAttempts = gwr.retries
              /\ gwr.error = Some([kind |-> "AIGenerationError", attempt |-> gwr.retries - 1])

\* C13: in generate_with_retries every attempt after the first is directly
\* preceded by one sleep of retry_delays[i] (the last delay of the list when i
\* is beyond its end), i being the failed attempt before it; that sleep is
\* directly preceded by the job built with retry_count = i + 1 and
\* last_retry_at set; and a sleep never follows the final attempt or a
\* successful one (nor ends the call).
C13_OneSleepBetweenAttempts ==
    gwr.pc # "idle" =>
        LET t == gwr.trace
            n == Len(gwr.delays)
        IN /\ \A p \in 1..Len(t) :
                (t[p].kind = "generate" /\ t[p].attempt > 0) =>
                    LET i == t[p].attempt - 1
                    IN /\ p > 3
                       /\ t[p - 1].kind = "sleep"
                       /\ t[p - 1].delay = gwr.delays[IF i < n THEN i + 1 ELSE n]
                       /\ t[p - 2].kind = "job"
                       /\ Val(t[p - 2].job).retry_count = i + 1
                       /\ Val(t[p - 2].job).last_retry_at # None
                       /\ t[p - 3] = Event("generate", i, "raise", None, 0)
           /\ \A p \in 1..Len(t) :
                t[p].kind = "sleep" =>
                    /\ t[p].attempt < gwr.retries - 1
                    /\ p > 2 /\ t[p - 2].kind = "generate" /\ t[p - 2].res # "ok"
                    /\ p < Len(t) => t[p + 1].kind = "generate"
                    /\ p = Len(t) => gwr.pc \in {"sleeping", "attempt"}

\* C13 witness: a call that returned on its third attempt with a one-entry
\* delay list: it slept the first delay and then the clamped delay.
C13_Witness ==
    /\ gwr.pc = "returned"
    /\ gwr.delays = <<5>>
    /\ gwr.attempt = 2
    /\ CountOf(gwr.trace, LAMBDA e : e.kind = "sleep" /\ e.delay = 5) = 2

\* C14: in generate_with_retries a timeout is surfaced to the caller only
\* when it happened on the last of the max_retries attempts.
C14_TimeoutIsRetried ==
    ( /\ gwr.pc = "raised"
      /\ Len(gwr.trace) > 0
      /\ gwr.trace[Len(gwr.trace)].kind = "generate"
      /\ gwr.trace[Len(gwr.trace)].res = "timeout" )
    => gwr.trace[Len(gwr.trace)].attempt = gwr.retries - 1

\* C15: when generate_with_retries returned after k failed attempts, the job
\* the caller goes on with has retry_count = k.
C15_RetryCountSurvivesSuccess ==
    gwr.pc = "returned" =>
        gwr.arg.retry_count = CountOf(gwr.trace, LAMBDA e : IsGenerate(e) /\ e.res # "ok")

\* C16: every job built during the retries has a retry_count that exceeds
\* neither the length of its retry_delays nor 3.
C16_RetryCountWithinDelays ==
    gwr.pc # "idle" =>
        \A p \in 1..Len(gwr.trace) :
            gwr.trace[p].kind = "job" =>
                /\ Val(gwr.trace[p].job).retry_count <= Len(Val(gwr.trace[p].job).retry_delays)
                /\ Val(gwr.trace[p].job).retry_count <= RetryCountMax
\* The run of request r holds the result of a query that found no document.
EmptyContext(r) == st[r] # None /\ Val(st[r]).context = Some(<<>>)

\* C17: when the similarity query returned zero documents, RETRIEVE leaves
\* no error in the state, GENERATE still calls the LLM and the document it
\* builds has empty context_sources, and when every collaborator call of the
\* run succeeded the FINALIZE step makes execute_workflow return a job with
\* status COMPLETED and current_stage FINALIZE.
C17_EmptyContextStillCompletes ==
    [][\A r \in Reqs :
          EmptyContext(r) =>
              /\ pc[r] = "generate" => Val(st[r]).error = None
              /\ (pc[r] = "generate" /\ pc'[r] # "generate") =>
                    /\ Len(calls'[r]) = Len(calls[r]) + 1
                    /\ calls'[r][Len(calls'[r])].op = "llm_generate"
              /\ Val(st[r]).test_document # None =>
                    Val(Val(st[r]).test_document).context_sources = <<>>
              /\ ( /\ pc[r] = "finalize" /\ pc'[r] = "done"
                   /\ \A i \in 1..Len(calls'[r]) : calls'[r][i].res \in {"ok", "exists"} )
                 => /\ Val(ret'[r]).kind = "returned"
                    /\ Val(Val(ret'[r]).job).status = "COMPLETED"
                    /\ Val(Val(ret'[r]).job).current_stage = "FINALIZE"
    ]_vars

\* C17 witness: a run with an empty context whose document was generated,
\* committed and proposed, about to finalize, with every call so far a success.
C17_Witness ==
    \E r \in Reqs :
        /\ EmptyContext(r)
        /\ pc[r] = "finalize"
        /\ Val(Val(st[r]).test_document).context_sources = <<>>
        /\ Val(Val(st[r]).test_document).pr_number # None
        /\ \A i \in 1..Len(calls[r]) : calls[r][i].res = "ok"
\* No collaborator call of the run of request r has failed so far.
NoFailure(r) == \A i \in 1..Len(calls[r]) : calls[r][i].res \in {"ok", "exists"}

\* C18: when create_branch finds that the branch already exists (and no other
\* call of the run fails), it is the
\* only create_branch call of the run, no file commit, pull request or issue
\* comment is made in the run, and the run ends with a FAILED job whose
\* current_stage is COMMIT.
C18_ExistingBranchFailsAtCommit ==
    \A r \in Reqs :
        (Made(r, Call("create_branch", "exists")) /\ NoFailure(r)) =>
            /\ CountOf(calls[r], LAMBDA c : c.op = "create_branch") = 1
            /\ \A i \in 1..Len(calls[r]) :
                  calls[r][i].op \notin {"create_or_update_file", "create_pull_request",
                                         "add_issue_comment"}
            /\ Ended(r) =>
                  /\ HasReturned(r)
                  /\ ReturnedJob(r).status = "FAILED"
                  /\ ReturnedJob(r).current_stage = "COMMIT"

\* C19: while a pipeline runs, the registry entry of its job is the snapshot
\* of the latest stage transition: once the run is past RETRIEVE the entry is
\* PROCESSING and shows the current_stage of the job in the workflow state
\* (checked for runs in which no collaborator call has failed).
C19_RegistryFollowsStages ==
    \A r \in Reqs :
        (pc[r] \in {"generate", "commit", "create_pr", "finalize"} /\ NoFailure(r)) =>
            /\ jobs[Val(injob[r]).job_id].status = "PROCESSING"
            /\ jobs[Val(injob[r]).job_id].current_stage = Val(st[r]).job.current_stage

\* C20: of two identical deliveries for the same (repository, issue_number),
\* whatever the interleaving of their handlers, exactly one creates a job and
\* the other is rejected as a duplicate (409, E104).
C20_OneJobPerIssue ==
    \A r, q \in Reqs :
        ( /\ r # q
          /\ hpc[r] = "responded" /\ hpc[q] = "responded"
          /\ hin[r] = Some(GoodRequest(1)) /\ hin[q] = Some(GoodRequest(1)) )
        => \/ injob[r] # None /\ injob[q] = None /\ resp[q] = Some(Response(409, "E104"))
           \/ injob[q] # None /\ injob[r] = None /\ resp[r] = Some(Response(409, "E104"))

\* ---------------------------------------------------------------- claims C21..C30
\* C21: a delivery that passes the other checks and whose idempotency key is
\* already in the store is answered 409 with E104, and no WebhookEvent, job,
\* registry entry or background task is created for it; an accepted delivery
\* leaves its key in the store, so an identical delivery handled after it is
\* rejected.
C21_DuplicateKeyIsRejected ==
    [][\A r \in Reqs :
          /\ ( /\ hpc[r] = "idle" /\ hpc'[r] # "idle"
               /\ \E i \in 0..MaxIssue :
                     /\ hin'[r] = Some(GoodRequest(i))
                     /\ IdempotencyKey(Repository, i) \in redis )
             => /\ hpc'[r] = "responded"
                /\ resp'[r] = Some(Response(409, "E104"))
                /\ ev'[r] = None /\ injob'[r] = None /\ pc'[r] = "idle"
                /\ jobs' = jobs /\ redis' = redis
          /\ resp'[r] = Some(Response(202, "accepted"))
             => IdempotencyKey(Repository, Val(hin'[r]).issue) \in redis'
    ]_vars

\* C21 witness: of two identical deliveries one was accepted and the other
\* rejected as a duplicate.
C21_Witness ==
    \E r, q \in Reqs :
        /\ hin[r] # None /\ hin[r] = hin[q]
        /\ resp[r] = Some(Response(202, "accepted"))
        /\ resp[q] = Some(Response(409, "E104"))
        /\ injob[q] = None
\* The snapshots stored in the registry so far for the job of request r: the
\* job github_webhook created and the job execute_workflow returned.
StoredSnapshots(r) ==
    (IF snaps[r] = <<>> THEN {} ELSE {snaps[r][1]})
    \cup (IF HasReturned(r) THEN {ReturnedJob(r)} ELSE {})

\* A status answer shows, field by field, the job s.
ShowsJob(body, s) ==
    /\ body.job_id = s.job_id
    /\ body.correlation_id = s.correlation_id
    /\ body.webhook_event_id = s.webhook_event_id
    /\ body.status = s.status
    /\ body.current_stage = s.current_stage
    /\ body.error_message = s.error_message
    /\ body.error_code = s.error_code
    /\ body.retry_count = s.retry_count
    /\ body.started_at = s.started_at
    /\ body.completed_at = s.completed_at
    /\ body.last_retry_at = s.last_retry_at

\* C22: whatever the interleaving of pipeline tasks and status queries, a
\* query that finds the job answers with the fields of one snapshot that was
\* stored for that job id, never with a mixture of two.
C22_PollShowsOneStoredSnapshot ==
    (poll # None /\ Val(poll).code = 200) =>
        \E r \in Reqs :
            /\ Uuid(r, 4) = Val(poll).job_id
            /\ \E s \in StoredSnapshots(r) : ShowsJob(Val(Val(poll).body), s)

\* C22 witness: a query answered with the PENDING snapshot of a job whose
\* registry entry the pipeline has replaced by a terminal one since.
C22_Witness ==
    /\ poll # None /\ Val(poll).code = 200
    /\ Val(Val(poll).body).status = "PENDING"
    /\ jobs[Val(poll).job_id].status \in Terminal

\* C23: a status query answers 404 exactly when nothing was ever stored under
\* the id, and otherwise with the fields of the entry stored last; entries
\* are never removed, a store changes the entry of the stored job's own
\* job_id and no other, and the job execute_workflow returned is in the
\* registry once the task has finished.
C23_GetAndPutByJobId ==
    [][/\ poll' # poll =>
            LET a == Val(poll')
            IN /\ a.code = 404 <=> a.job_id \notin DOMAIN jobs
               /\ a.code # 404 =>
                     /\ a.code = 200
                     /\ ShowsJob(Val(a.body), jobs[a.job_id])
       /\ DOMAIN jobs \subseteq DOMAIN jobs'
       /\ \A id \in DOMAIN jobs' :
             (id \notin DOMAIN jobs \/ jobs'[id] # jobs[id]) => jobs'[id].job_id = id
       /\ Cardinality({id \in DOMAIN jobs' : id \notin DOMAIN jobs \/ jobs'[id] # jobs[id]}) <= 1
       /\ \A r \in Reqs :
             (ret'[r] # None /\ Val(ret'[r]).kind = "returned") =>
                 jobs'[Val(injob'[r]).job_id] = Val(Val(ret'[r]).job)
    ]_vars

\* C23 witness: a query of a finished job shows its terminal registry entry,
\* the registry holding one job per delivery.
C23_Witness ==
    /\ poll # None /\ Val(poll).code = 200
    /\ Val(Val(poll).body).status \in Terminal
    /\ ShowsJob(Val(Val(poll).body), jobs[Val(poll).job_id])
    /\ Cardinality(DOMAIN jobs) = MaxReqs
\* C24: a step of one request's handler or pipeline leaves the run state of
\* every other request and the registry entry of every other job id as they
\* are, and when a run ends, the calls it made and its result (times aside)
\* are those of a run of the same job by itself with the same collaborator
\* answers.
C24_JobsAreIndependent ==
    [][\A r \in Reqs :
          /\ (pc'[r] # pc[r] \/ hpc'[r] # hpc[r]) =>
                /\ \A q \in Reqs \ {r} :
                      /\ pc'[q] = pc[q] /\ st'[q] = st[q] /\ ret'[q] = ret[q]
                      /\ calls'[q] = calls[q] /\ snaps'[q] = snaps[q]
                      /\ injob'[q] = injob[q] /\ ev'[q] = ev[q]
                /\ \A id \in DOMAIN jobs : id # Uuid(r, 4) => jobs'[id] = jobs[id]
          /\ ret'[r] # None => <<calls'[r], Timeless(Val(ret'[r]))>> \in AloneResults[r]
    ]_vars

\* C24 witness: two jobs whose runs overlapped in time have both ended, one
\* COMPLETED and one FAILED.
C24_Witness ==
    \E r, q \in Reqs :
        /\ HasReturned(r) /\ HasReturned(q)
        /\ ReturnedJob(r).status = "COMPLETED" /\ ReturnedJob(q).status = "FAILED"
        /\ Val(ReturnedJob(r).completed_at) > ReturnedJob(q).started_at
        /\ Val(ReturnedJob(q).completed_at) > ReturnedJob(r).started_at
        /\ Len(calls[q]) > 2
\* C25: the document in the workflow state has pr_number and pr_url both
\* absent or both present; they are absent from GENERATE until CREATE_PR has
\* run, and after CREATE_PR they are the number and URL of the pull request
\* that was opened.
C25_PrFieldsSetTogether ==
    \A r \in Reqs :
        (st[r] # None /\ Val(st[r]).test_document # None) =>
            LET d == Val(Val(st[r]).test_document)
            IN /\ (d.pr_number = None) <=> (d.pr_url = None)
               /\ pc[r] \in {"commit", "create_pr"} =>
                     d.pr_number = None /\ d.pr_url = None
               /\ pc[r] = "finalize" =>
                     /\ d.pr_number = Some(PullRequest(r).number)
                     /\ d.pr_url = Some(PullRequest(r).html_url)

\* C25 witness: one run holds a document with its pull request recorded, the
\* other a generated document without one.
C25_Witness ==
    \E r, q \in Reqs :
        /\ pc[r] = "finalize"
        /\ Val(Val(st[r]).test_document).pr_url = Some(PullRequest(r).html_url)
        /\ pc[q] = "commit"
        /\ Val(st[q]).test_document # None
        /\ Val(Val(st[q]).test_document).pr_number = None

\* C26: the job created for an accepted delivery has the correlation_id of
\* the WebhookEvent it was created from.
C26_JobSharesEventCorrelationId ==
    \A r \in Reqs :
        (injob[r] # None /\ ev[r] # None) =>
            Val(injob[r]).correlation_id = Val(ev[r]).correlation_id
\* C29: a job returned COMPLETED comes from a run in which the similarity
\* query, the generation, create_branch, the file commit, create_pull_request
\* and add_issue_comment were each called and returned without error; it is
\* at FINALIZE and has no error fields.
C29_CompletedMeansAllStagesSucceeded ==
    \A r \in Reqs :
        (HasReturned(r) /\ ReturnedJob(r).status = "COMPLETED") =>
            /\ NoFailure(r)
            /\ \A op \in {"query_similar", "llm_generate", "create_or_update_file",
                          "create_pull_request", "add_issue_comment"} :
                  Made(r, Call(op, "ok"))
            /\ Made(r, Call("create_branch", "ok")) \/ Made(r, Call("create_branch", "exists"))
            /\ ReturnedJob(r).current_stage = "FINALIZE"
            /\ ReturnedJob(r).error_message = None
            /\ ReturnedJob(r).error_code = None

\* Call j of the run of request r comes after a call of op that returned.
After(r, j, op) ==
    \E i \in 1..(j - 1) : calls[r][i].op = op /\ calls[r][i].res \in {"ok", "exists"}

\* C30: in every run each collaborator operation other than the generation
\* is called at most once, create_or_update_file only after create_branch
\* returned, create_pull_request only after the file commit returned, and
\* add_issue_comment only after create_pull_request returned (the document
\* then carrying the pull request's number and URL).
C30_PublisherCallsInOrderOnce ==
    \A r \in Reqs :
        /\ \A i, j \in 1..Len(calls[r]) :
              (i # j /\ calls[r][i].op = calls[r][j].op) => calls[r][i].op = "llm_generate"
        /\ \A j \in 1..Len(calls[r]) :
              /\ calls[r][j].op = "create_or_update_file" => After(r, j, "create_branch")
              /\ calls[r][j].op = "create_pull_request" => After(r, j, "create_or_update_file")
              /\ calls[r][j].op = "add_issue_comment" => After(r, j, "create_pull_request")
        /\ (pc[r] = "finalize" /\ st[r] # None) =>
              Val(Val(st[r]).test_document).pr_number # None

\* C30 witness: a run that made every publisher call has ended.
C30_Witness ==
    \E r \in Reqs :
        /\ Ended(r)
        /\ \A op \in {"create_branch", "create_or_update_file", "create_pull_request",
                      "add_issue_comment"} :
              \E i \in 1..Len(calls[r]) : calls[r][i].op = op
\* Task r can be given the thread for its next call.
Ready(r) == ~sched[r].waiting /\ sched[r].pos < Len(PipelineCalls)

\* C27: while generate_with_retries sleeps between two attempts (and no
\* pipeline is inside a call of its own that holds the thread), every ready
\* pipeline can make its next call, every suspended pipeline can be resumed
\* and a status query can be handled.
C27_SleepLeavesLoopFree ==
    (gwr.pc = "sleeping" /\ \A r \in Reqs : ~HeldBy(r)) =>
        /\ \A r \in Reqs : Ready(r) => ENABLED CallStart(r)
        /\ \A r \in Reqs : sched[r].waiting => ENABLED CallReturn(r)
        /\ ENABLED Poll

\* C27 witness: during a backoff sleep one pipeline that has already made
\* calls is ready for its next one, another is suspended in the generation
\* call, and a status query has been answered.
C27_Witness ==
    /\ gwr.pc = "sleeping"
    /\ poll # None
    /\ \E r, q \in Reqs :
          /\ Ready(r) /\ sched[r].pos > 0
          /\ sched[q].waiting /\ PipelineCalls[sched[q].pos + 1].suspends

\* C28: while one pipeline waits for a collaborator call to return, every
\* other ready pipeline can make its next call and a status query can be
\* handled.
C28_CollaboratorCallsLeaveLoopFree ==
    \A r \in Reqs :
        sched[r].waiting =>
            /\ \A q \in Reqs \ {r} : Ready(q) => ENABLED CallStart(q)
            /\ ENABLED Poll
\* ---------------------------------------------------------------- claims C31..C40
\* C31: the pull request CREATE_PR opened has the document's branch as head,
\* the repository's default branch as base, and a body closing the
\* document's issue.
C31_PrIntoDefaultBranch ==
    \A r \in Reqs :
        (pc[r] = "finalize" /\ st[r] # None) =>
            LET document == Val(Val(st[r]).test_document)
            IN \E p \in pulls :
                  /\ Some(p.number) = document.pr_number
                  /\ p.args.head = document.branch_name
                  /\ p.args.body.closes = document.issue_number
                  /\ p.args.base = p.default_branch

\* C32: every backoff sleep of generate_with_retries lasts the delay the
\* retried job's own retry_delays gives for the failed attempt.
C32_SleepsTheJobsOwnDelay ==
    gwr.pc # "idle" =>
        \A p \in 1..Len(gwr.trace) :
            (gwr.trace[p].kind = "sleep"
             /\ gwr.trace[p].attempt < Len(gwr.arg.retry_delays)) =>
                gwr.trace[p].delay = gwr.arg.retry_delays[gwr.trace[p].attempt + 1]

\* The exception class of the two client errors that are never retried.
ErrorClass(client) ==
    IF client = "exists" THEN "GitHubBranchExistsError" ELSE "GitHubRateLimitError"

\* C33: when the first attempt of create_branch_with_retry raises
\* GitHubBranchExistsError or GitHubRateLimitError, the call raises that
\* error after this one attempt, without a sleep.
C33_ExistsAndRateLimitNotRetried ==
    ( /\ cbr.pc # "idle"
      /\ Len(cbr.trace) > 0
      /\ cbr.trace[1].client \in {"exists", "rate_limit"} ) =>
        /\ cbr.pc = "raised"
        /\ Len(cbr.trace) = 1
        /\ Val(cbr.error).kind = ErrorClass(cbr.trace[1].client)
        /\ Val(cbr.error).attempt = 0

\* C33 witness: a call allowed three attempts raised GitHubBranchExistsError.
C33_Witness ==
    /\ cbr.pc = "raised"
    /\ cbr.max_retries = 3
    /\ Val(cbr.error).kind = "GitHubBranchExistsError"

\* Entry p of the trace is an attempt that failed with a 5xx GitHubAPIError.
Transient(p) ==
    /\ cbr.trace[p].kind = "create_branch"
    /\ cbr.trace[p].res = "GitHubAPIError"
    /\ cbr.trace[p].status >= 500

\* C34: create_branch_with_retry (max_retries >= 1): a call that returns made
\* k < max_retries attempts failing with a 5xx GitHubAPIError, each followed
\* by a sleep of 2^attempt, and then its one successful attempt; max_retries
\* attempts all failing with 5xx end the call with the last error raised and
\* no sleep after it; a GitHubAPIError below 500 is raised by the attempt it
\* came from, with no further attempt.
C34_TransientErrorsAreRetried ==
    (cbr.pc # "idle" /\ cbr.max_retries >= 1) =>
        LET t == cbr.trace
            n == Len(t)
        IN /\ \A p \in 1..n :
                /\ (p % 2 = 1) => (t[p].kind = "create_branch" /\ t[p].attempt = (p - 1) \div 2)
                /\ (p % 2 = 0) => /\ t[p].kind = "sleep"
                                  /\ t[p].delay = 2 ^ t[p].attempt
                                  /\ t[p].attempt = (p - 2) \div 2
                                  /\ Transient(p - 1)
           /\ n <= 2 * cbr.max_retries - 1
           /\ cbr.pc = "returned" =>
                /\ n % 2 = 1 /\ t[n].res = "ok"
                /\ \A p \in 1..(n - 1) : p % 2 = 1 => Transient(p)
           /\ (n = 2 * cbr.max_retries - 1 /\ Transient(n)) =>
                /\ cbr.pc = "raised"
                /\ Val(cbr.error) = [kind |-> "GitHubAPIError", status |-> Some(t[n].status),
                                     attempt |-> cbr.max_retries - 1]
           /\ \A p \in 1..n :
                (t[p].kind = "create_branch" /\ t[p].res = "GitHubAPIError"
                 /\ t[p].status < 500) =>
                    /\ p = n
                    /\ cbr.pc = "raised"
                    /\ Val(cbr.error).kind = "GitHubAPIError"
                    /\ Val(cbr.error).attempt = t[p].attempt

\* C34 witness: a call that returned on its third attempt, after two 5xx
\* failures and the sleeps of 1 and 2 seconds.
C34_Witness ==
    /\ cbr.pc = "returned"
    /\ Len(cbr.trace) = 5
    /\ Transient(1) /\ Transient(3)
    /\ cbr.trace[2].delay = 1 /\ cbr.trace[4].delay = 2

\* C40: create_branch_with_retry returns normally only after an attempt of
\* create_branch that returned without error.
C40_ReturnMeansBranchCreated ==
    cbr.pc = "returned" =>
        \E p \in 1..Len(cbr.trace) :
            cbr.trace[p].kind = "create_branch" /\ cbr.trace[p].res = "ok"
\* C35: a run that is in GENERATE leaves it, and a run that has started
\* ends, although the generation client need never answer; a wait that the
\* timer ended leaves the timeout failure in the state.
C35_GenerateAlwaysTerminates ==
    /\ (pc[1] = "generate") ~> (pc[1] \in {"commit", "done"})
    /\ (pc[1] = "receive") ~> (pc[1] = "done")
    /\ [][\A r \in Reqs :
            (pc[r] = "generate" /\ pc'[r] = "commit"
             /\ calls'[r][Len(calls'[r])] = Call("llm_generate", "timeout")) =>
                Truthy(Val(st'[r]).error)]_vars

\* C35 witness: a run whose generation wait was ended by the timer is over.
C35_Witness ==
    \E r \in Reqs : Ended(r) /\ Made(r, Call("llm_generate", "timeout"))
\* C36: a registry entry that is COMPLETED or FAILED is never changed or
\* removed, and the run of its job makes no further call and builds no
\* further job; no entry is ever removed.
C36_TerminalEntryIsFinal ==
    [][ /\ DOMAIN jobs \subseteq DOMAIN jobs'
        /\ \A r \in Reqs :
              (Uuid(r, 4) \in DOMAIN jobs /\ jobs[Uuid(r, 4)].status \in Terminal) =>
                  /\ jobs'[Uuid(r, 4)] = jobs[Uuid(r, 4)]
                  /\ pc'[r] = pc[r] /\ pc[r] = "done"
                  /\ calls'[r] = calls[r]
                  /\ snaps'[r] = snaps[r] ]_vars

\* C36 witness: the registry holds the terminal entry of one job and the
\* entry of another job whose run is past its first stages.
C36_Witness ==
    \E r, q \in Reqs :
        /\ r # q
        /\ Uuid(r, 4) \in DOMAIN jobs /\ jobs[Uuid(r, 4)].status \in Terminal
        /\ Uuid(q, 4) \in DOMAIN jobs /\ pc[q] \in {"commit", "create_pr", "finalize", "done"}

\* Job j carries the identity fields of job j0.
Carried(j, j0) ==
    /\ j.job_id = j0.job_id
    /\ j.webhook_event_id = j0.webhook_event_id
    /\ j.idempotency_key = j0.idempotency_key
    /\ j.correlation_id = j0.correlation_id
    /\ j.started_at = j0.started_at
    /\ j.retry_delays = j0.retry_delays

\* C37: every job built for a delivery (stage transitions and the terminal
\* job) carries the identity fields of the initial job, a FAILED one its
\* retry_count too; every job generate_with_retries builds carries the
\* identity fields of the job it was called with.
C37_IdentityFieldsCarried ==
    /\ \A r \in Reqs : \A i \in 1..Len(snaps[r]) :
          /\ Carried(snaps[r][i], snaps[r][1])
          /\ snaps[r][i].status = "FAILED" =>
                snaps[r][i].retry_count = snaps[r][1].retry_count
    /\ gwr.pc # "idle" =>
          \A p \in 1..Len(gwr.trace) :
              gwr.trace[p].kind = "job" => Carried(Val(gwr.trace[p].job), gwr.arg)

\* C37 witness: a run ended with a FAILED job after building others, and a
\* call of generate_with_retries for a job with its own delay list has
\* rebuilt the job twice.
C37_Witness ==
    /\ Ended(1) /\ Len(snaps[1]) >= 3 /\ snaps[1][Len(snaps[1])].status = "FAILED"
    /\ gwr.pc # "idle" /\ gwr.arg.retry_delays = <<5>>
    /\ \E p \in 1..Len(gwr.trace) :
          gwr.trace[p].kind = "job" /\ Val(gwr.trace[p].job).retry_count = 2

\* C38: a delivery answered with an error leaves the idempotency store, the
\* registry and the background tasks as they were, and a delivery whose
\* signature is not valid is answered 401 whatever its payload.
C38_RejectedWebhookChangesNothing ==
    [][\A r \in Reqs :
          (resp[r] = None /\ resp'[r] # None /\ Val(resp'[r]).status # 202) =>
              /\ redis' = redis
              /\ jobs' = jobs
              /\ pc' = pc
              /\ Val(hin'[r]).sig # "valid" => Val(resp'[r]).status = 401]_vars

\* C39: every key in the idempotency store belongs to a delivery for which
\* process_webhook returned a WebhookEvent and a job was created.
C39_KeyReservedOnlyForAccepted ==
    \A k \in redis :
        \E r \in Reqs :
            /\ ev[r] # None
            /\ IdempotencyKey(Val(ev[r]).repository, Val(ev[r]).issue_number) = k
            /\ injob[r] # None
            /\ Val(resp[r]).status = 202

====
